---- MODULE Spec2Model ----
(***************************************************************************)
(* WebBaseline: the feature highlighter of src/src/highlight.js and the    *)
(* editor event handlers of src/src/extension.js.                          *)
(*                                                                         *)
(* A text is a sequence of one-character strings.  Offsets are the         *)
(* 0-based offsets of JavaScript; charAt(text, i) is text[i + 1].          *)
(***************************************************************************)
EXTENDS Integers, Sequences, FiniteSets, TLC

(***************************************************************************)
(* Characters and the character classes of the regular expressions.        *)
(***************************************************************************)
LowerSeq ==
  << "a", "b", "c", "d", "e", "f", "g", "h", "i", "j", "k", "l", "m",
     "n", "o", "p", "q", "r", "s", "t", "u", "v", "w", "x", "y", "z" >>

UpperSeq ==
  << "A", "B", "C", "D", "E", "F", "G", "H", "I", "J", "K", "L", "M",
     "N", "O", "P", "Q", "R", "S", "T", "U", "V", "W", "X", "Y", "Z" >>

CharsOf(s) == { s[i] : i \in DOMAIN s }

\* [a-zA-Z]
Letters == CharsOf(LowerSeq) \cup CharsOf(UpperSeq)

\* [0-9]
Digits == { "0", "1", "2", "3", "4", "5", "6", "7", "8", "9" }

\* [a-zA-Z-], the class of the CSS property group
CssNameChars == Letters \cup { "-" }

\* [a-zA-Z0-9-], the class of the tail of an HTML tag name
TagNameChars == Letters \cup Digits \cup { "-" }

\* \s, and the characters String.prototype.trim removes
Whitespace == { " ", "\t", "\n", "\r" }

\* [\s>/], the lookahead of the per-tag regular expression
TagDelimiters == Whitespace \cup { ">", "/" }

charAt(text, i) == text[i + 1]

\* text.substring(from, to)
substring(text, from, to) == SubSeq(text, from + 1, to)

\* One character of String.prototype.toLowerCase
toLowerCaseChar(c) ==
  IF \E i \in DOMAIN UpperSeq : UpperSeq[i] = c
    THEN LowerSeq[CHOOSE i \in DOMAIN UpperSeq : UpperSeq[i] = c]
    ELSE c

toLowerCase(s) == [ i \in DOMAIN s |-> toLowerCaseChar(s[i]) ]

\* String.prototype.trim
trim(s) ==
  LET keep == { i \in DOMAIN s : s[i] \notin Whitespace }
  IN  IF keep = {} THEN << >>
      ELSE LET lo == CHOOSE i \in keep : \A j \in keep : i <= j
               hi == CHOOSE i \in keep : \A j \in keep : j <= i
           IN  SubSeq(s, lo, hi)

\* The end of the longest run of characters of class cls that starts at
\* offset i: what a greedy cls* consumes.
RunEnd(text, i, cls) ==
  CHOOSE j \in i .. Len(text) :
    /\ \A k \in i .. (j - 1) : charAt(text, k) \in cls
    /\ (j = Len(text) \/ charAt(text, j) \notin cls)

(***************************************************************************)
(* The host's document.positionAt and vscode.Range.                        *)
(***************************************************************************)
\* document.positionAt(offset): the offset is clamped to the text, the line
\* is the number of line feeds before it, the character is the distance to
\* the start of that line.
positionAt(text, offset) ==
  LET o      == IF offset < 0 THEN 0
                ELSE IF offset > Len(text) THEN Len(text) ELSE offset
      breaks == { k \in 0 .. (o - 1) : charAt(text, k) = "\n" }
      bol    == IF breaks = {} THEN 0
                ELSE 1 + (CHOOSE k \in breaks : \A m \in breaks : m <= k)
  IN  [ line |-> Cardinality(breaks), character |-> o - bol ]

\* new vscode.Range(start, end)
Range(start, end) == [ start |-> start, end |-> end ]

(***************************************************************************)
(* The compatibility dataset behind getStatus(null, key).  A dataset is a  *)
(* finite table from keys to what the call returns; a key the table does   *)
(* not hold makes the call throw.                                          *)
(***************************************************************************)
Str_css_properties ==
  << "c", "s", "s", ".", "p", "r", "o", "p", "e", "r", "t", "i", "e", "s", "." >>

Str_html_elements ==
  << "h", "t", "m", "l", ".", "e", "l", "e", "m", "e", "n", "t", "s", "." >>

\* `css.properties.${property}`
getCssBcdKey(property) == Str_css_properties \o property

\* `css.properties.${property}.${value}`
CssValueKey(property, value) == Str_css_properties \o property \o << "." >> \o value

\* `html.elements.${element}`
getHtmlBcdKey(element) == Str_html_elements \o element

\* The browsers that the hover lists, desktop then mobile
ListedBrowsers ==
  << "chrome", "edge", "firefox", "safari",
     "chrome_android", "safari_ios", "firefox_android", "samsung_internet" >>

BrowserNames == { ListedBrowsers[i] : i \in DOMAIN ListedBrowsers }

\* status.support[browser]: a version string "v", true, false, or "absent"
\* for null and undefined.  FullSupport has a version for every browser;
\* NoSupport is a status without support, or with an empty one.
FullSupport == [ browser \in BrowserNames |-> "v" ]
NoSupport == [ browser \in BrowserNames |-> "absent" ]

Thrown     == [ kind |-> "throw",  baseline |-> "none", support |-> NoSupport ]
NullStatus == [ kind |-> "null",   baseline |-> "none", support |-> NoSupport ]
StatusWith(b, support) == [ kind |-> "status", baseline |-> b, support |-> support ]
Status(b)  == StatusWith(b, FullSupport)

\* The baseline values of a status record: false, "low", "high", and any
\* other value ("other" stands for undefined or an unknown string).
Baselines == { "false", "low", "high", "other" }

\* What a table entry returns.
Returned == { NullStatus } \cup { Status(b) : b \in Baselines }

\* getStatus(null, key) of compute-baseline
getStatus(ds, key) == IF key \in DOMAIN ds THEN ds[key] ELSE Thrown

\* !status
Falsy(status) == status.kind = "null"

(***************************************************************************)
(* pushByStatus.  The three arrays of highlightFeatures travel together as *)
(* one record b; b.threw records an exception that left the scan, and      *)
(* b.lookups the keys getStatus was called with, in order.                 *)
(***************************************************************************)
EmptyBuckets ==
  [ limited |-> << >>, newly |-> << >>, widely |-> << >>, threw |-> FALSE,
    lookups |-> << >> ]

\* b after a call getStatus(null, key)
Looked(b, key) == [ b EXCEPT !.lookups = Append(@, key) ]

\* pushByStatus with the sets of "low" and "high" exchanged.
pushByStatus_Swapped(index, length, status, txt, b) ==
  LET range == Range(positionAt(txt, index), positionAt(txt, index + length))
  IN  IF Falsy(status) \/ status.baseline = "false"
        THEN [ b EXCEPT !.limited = Append(@, range) ]
      ELSE IF status.baseline = "low"
        THEN [ b EXCEPT !.widely = Append(@, range) ]
      ELSE IF status.baseline = "high"
        THEN [ b EXCEPT !.newly = Append(@, range) ]
      ELSE b

\* pushByStatus that leaves out a range the array already holds.
pushByStatus_Dedupes(index, length, status, txt, b) ==
  LET range == Range(positionAt(txt, index), positionAt(txt, index + length))
      Add(seq) == IF \E n \in DOMAIN seq : seq[n] = range THEN seq ELSE Append(seq, range)
  IN  IF Falsy(status) \/ status.baseline = "false"
        THEN [ b EXCEPT !.limited = Add(@) ]
      ELSE IF status.baseline = "low"
        THEN [ b EXCEPT !.newly = Add(@) ]
      ELSE IF status.baseline = "high"
        THEN [ b EXCEPT !.widely = Add(@) ]
      ELSE b

pushByStatus(index, length, status, txt, b) ==
  LET start == positionAt(txt, index)
      end   == positionAt(txt, index + length)
      range == Range(start, end)
  IN  IF Falsy(status) \/ status.baseline = "false"
        THEN [ b EXCEPT !.limited = Append(@, range) ]
      ELSE IF status.baseline = "low"
        THEN [ b EXCEPT !.newly = Append(@, range) ]
      ELSE IF status.baseline = "high"
        THEN [ b EXCEPT !.widely = Append(@, range) ]
      ELSE b

\* highlightCss.  regex is /([a-zA-Z-]+)\s*:\s*([^;]+);/g
NoMatch == [ found |-> FALSE, index |-> 0, g1 |-> << >>, g2 |-> << >>, lastIndex |-> 0 ]

\* The match that starts at offset i, if there is one.  Group 1 is the
\* longest run of [a-zA-Z-] at i (a shorter one is followed by a character
\* of the class, which is neither \s nor ':'); \s* takes the white space
\* after it; ':' follows.  [^;]+ cannot cross a ';', so the match ends at the
\* first ';' after the colon, and needs one character before it; the greedy
\* \s* after the colon gives back its last character when it took them all.
CssMatchAt(text, i) ==
  LET n == Len(text)
      j == RunEnd(text, i, CssNameChars)
      k == RunEnd(text, j, Whitespace)
      semis == { s \in (k + 1) .. (n - 1) : charAt(text, s) = ";" }
      s == CHOOSE x \in semis : \A y \in semis : x <= y
      w == RunEnd(text, k + 1, Whitespace)
      v == IF w >= s THEN s - 1 ELSE w
  IN  IF /\ i < n
         /\ j > i
         /\ k < n
         /\ charAt(text, k) = ":"
         /\ semis # {}
         /\ s >= k + 2
        THEN [ found |-> TRUE, index |-> i, g1 |-> substring(text, i, j),
               g2 |-> substring(text, v, s), lastIndex |-> s + 1 ]
        ELSE NoMatch

\* regex.exec(text) with regex.lastIndex = lastIndex: the leftmost match at
\* or after lastIndex, or null.
CssExec(text, lastIndex) ==
  LET at == { i \in lastIndex .. (Len(text) - 1) : CssMatchAt(text, i).found }
  IN  IF at = {} THEN NoMatch
      ELSE CssMatchAt(text, CHOOSE i \in at : \A m \in at : i <= m)

\* keys.forEach without the try: the exception leaves the scan.
CssCheckKey_NoCatch(ds, txt, match, property, key, b) ==
  LET status == getStatus(ds, key)
  IN  IF b.threw THEN b
      ELSE IF status = Thrown THEN [ Looked(b, key) EXCEPT !.threw = TRUE ]
      ELSE pushByStatus(match.index, Len(property), status, txt, Looked(b, key))

\* keys.forEach with a catch that pushes the span as for no status.
CssCheckKey_CatchPushes(ds, txt, match, property, key, b) ==
  LET status == getStatus(ds, key)
  IN  IF b.threw THEN b
      ELSE IF status = Thrown
        THEN pushByStatus(match.index, Len(property), NullStatus, txt, Looked(b, key))
      ELSE pushByStatus(match.index, Len(property), status, txt, Looked(b, key))

\* keys.forEach with the length of the whole match for the span.
CssCheckKey_WholeMatch(ds, txt, match, property, key, b) ==
  LET status == getStatus(ds, key)
  IN  IF b.threw THEN b
      ELSE IF status = Thrown THEN Looked(b, key)
      ELSE pushByStatus(match.index, match.lastIndex - match.index, status, txt,
                        Looked(b, key))

\* The body of keys.forEach: try { getStatus; pushByStatus } catch {}
CssCheckKey(ds, text, match, property, key, b) ==
  LET status == getStatus(ds, key)
  IN  IF b.threw THEN b
      ELSE IF status = Thrown THEN Looked(b, key)
      ELSE pushByStatus(match.index, Len(property), status, text, Looked(b, key))

\* One turn of the while loop of highlightCss, for one match.
CssCheckMatch(ds, text, match, b) ==
  LET property == trim(match.g1)
      value    == trim(match.g2)
      b1       == CssCheckKey(ds, text, match, property, getCssBcdKey(property), b)
  IN  IF value # << >>
        THEN CssCheckKey(ds, text, match, property, CssValueKey(property, value), b1)
        ELSE b1

RECURSIVE highlightCssFrom(_, _, _, _)
highlightCssFrom(ds, text, lastIndex, b) ==
  LET match == CssExec(text, lastIndex)
  IN  IF b.threw \/ ~match.found THEN b
      ELSE highlightCssFrom(ds, text, match.lastIndex, CssCheckMatch(ds, text, match, b))

highlightCss(ds, text, b) == highlightCssFrom(ds, text, 0, b)

\* highlightHtml.  tagRegex is '<', an optional '/', then a letter and the
\* longest run of [a-zA-Z0-9-] after it, with the g flag.  For each tag name
\* not checked before, allTags is '<', an optional '/', the tag name and the
\* lookahead [\s>/], with the g and i flags.
\* The offset of the tag name of a tag that starts at offset i.
NameStart(text, i) ==
  IF i + 1 < Len(text) /\ charAt(text, i + 1) = "/" THEN i + 2 ELSE i + 1

TagMatchAt(text, i) ==
  LET n == Len(text)
      p == NameStart(text, i)
      e == RunEnd(text, p, TagNameChars)
  IN  IF /\ i < n
         /\ charAt(text, i) = "<"
         /\ p < n
         /\ charAt(text, p) \in Letters
        THEN [ found |-> TRUE, index |-> i, g1 |-> substring(text, p, e),
               g2 |-> << >>, lastIndex |-> e ]
        ELSE NoMatch

\* tagRegex.exec(text) with tagRegex.lastIndex = lastIndex
TagExec(text, lastIndex) ==
  LET at == { i \in lastIndex .. (Len(text) - 1) : TagMatchAt(text, i).found }
  IN  IF at = {} THEN NoMatch
      ELSE TagMatchAt(text, CHOOSE i \in at : \A m \in at : i <= m)

\* The match of the per-tag expression at offset i: '<', an optional '/',
\* the tag name in any letter case, and a delimiter that is not consumed.
\* g1 is tagMatch[0].
AllTagsMatchAt(text, tagName, i) ==
  LET n == Len(text)
      p == NameStart(text, i)
      e == p + Len(tagName)
  IN  IF /\ i < n
         /\ charAt(text, i) = "<"
         /\ e < n
         /\ toLowerCase(substring(text, p, e)) = toLowerCase(tagName)
         /\ charAt(text, e) \in TagDelimiters
        THEN [ found |-> TRUE, index |-> i, g1 |-> substring(text, i, e),
               g2 |-> << >>, lastIndex |-> e ]
        ELSE NoMatch

\* allTags.exec(text) with allTags.lastIndex = lastIndex
AllTagsExec(text, tagName, lastIndex) ==
  LET at == { i \in lastIndex .. (Len(text) - 1) : AllTagsMatchAt(text, tagName, i).found }
  IN  IF at = {} THEN NoMatch
      ELSE AllTagsMatchAt(text, tagName, CHOOSE i \in at : \A m \in at : i <= m)

\* tagMatch[0].startsWith('</')
StartsWithClose(s) == Len(s) >= 2 /\ s[1] = "<" /\ s[2] = "/"

\* The inner while loop with startIdx = tagMatch.index, the offset of '<'.
RECURSIVE HighlightTagFrom_NoAdjust(_, _, _, _, _)
HighlightTagFrom_NoAdjust(txt, tagName, status, lastIndex, b) ==
  LET tagMatch == AllTagsExec(txt, tagName, lastIndex)
  IN  IF ~tagMatch.found THEN b
      ELSE HighlightTagFrom_NoAdjust(txt, tagName, status, tagMatch.lastIndex,
                                     pushByStatus(tagMatch.index, Len(tagName), status, txt, b))

\* The inner while loop of highlightHtml.
RECURSIVE HighlightTagFrom(_, _, _, _, _)
HighlightTagFrom(text, tagName, status, lastIndex, b) ==
  LET tagMatch == AllTagsExec(text, tagName, lastIndex)
      startIdx == tagMatch.index + (IF StartsWithClose(tagMatch.g1) THEN 2 ELSE 1)
  IN  IF ~tagMatch.found THEN b
      ELSE HighlightTagFrom(text, tagName, status, tagMatch.lastIndex,
                            pushByStatus(startIdx, Len(tagName), status, text, b))

\* The block without the try: the exception leaves the scan.
HtmlCheckTag_NoCatch(ds, txt, tagName, b) ==
  LET status == getStatus(ds, getHtmlBcdKey(tagName))
  IN  IF status = Thrown
        THEN [ Looked(b, getHtmlBcdKey(tagName)) EXCEPT !.threw = TRUE ]
      ELSE IF Falsy(status) THEN Looked(b, getHtmlBcdKey(tagName))
      ELSE HighlightTagFrom(txt, tagName, status, 0, Looked(b, getHtmlBcdKey(tagName)))

\* The try block of highlightHtml for a tag name not checked before.
HtmlCheckTag(ds, text, tagName, b) ==
  LET status == getStatus(ds, getHtmlBcdKey(tagName))
  IN  IF status = Thrown THEN Looked(b, getHtmlBcdKey(tagName))
      ELSE IF Falsy(status) THEN Looked(b, getHtmlBcdKey(tagName))
      ELSE HighlightTagFrom(text, tagName, status, 0, Looked(b, getHtmlBcdKey(tagName)))

\* The while loop without the test of checkedTags.
RECURSIVE highlightHtmlFrom_NoDedupe(_, _, _, _, _)
highlightHtmlFrom_NoDedupe(ds, txt, lastIndex, checkedTags, b) ==
  LET match   == TagExec(txt, lastIndex)
      tagName == toLowerCase(match.g1)
  IN  IF b.threw \/ ~match.found THEN b
      ELSE highlightHtmlFrom_NoDedupe(ds, txt, match.lastIndex, checkedTags \cup { tagName },
                                      HtmlCheckTag(ds, txt, tagName, b))

RECURSIVE highlightHtmlFrom(_, _, _, _, _)
highlightHtmlFrom(ds, text, lastIndex, checkedTags, b) ==
  LET match   == TagExec(text, lastIndex)
      tagName == toLowerCase(match.g1)
  IN  IF b.threw \/ ~match.found THEN b
      ELSE IF tagName \in checkedTags
        THEN highlightHtmlFrom(ds, text, match.lastIndex, checkedTags, b)
      ELSE highlightHtmlFrom(ds, text, match.lastIndex, checkedTags \cup { tagName },
                             HtmlCheckTag(ds, text, tagName, b))

highlightHtml(ds, text, b) == highlightHtmlFrom(ds, text, 0, {}, b)

(***************************************************************************)
(* The scan of highlightFeatures: the three arrays it hands the editor.    *)
(***************************************************************************)
Str_html == << "h", "t", "m", "l" >>

\* language.includes("html")
includes(s, sub) ==
  \E i \in 0 .. (Len(s) - Len(sub)) : substring(s, i, i + Len(sub)) = sub

\* document.languageId when the host supplies none: undefined, which is no
\* string.
Undefined == << "undefined" >>

CssLanguages == { << "c", "s", "s" >>, << "s", "c", "s", "s" >>, << "l", "e", "s", "s" >> }

\* if (["css", "scss", "less"].includes(language)) highlightCss(...)
ScanCss(ds, text, language, b) ==
  IF language \in CssLanguages THEN highlightCss(ds, text, b) ELSE b

\* The HTML branch taken whatever the language is.
ScanHtml_AnyLanguage(ds, txt, language, b) ==
  IF ~b.threw THEN highlightHtml(ds, txt, b) ELSE b

\* if (language.includes("html")) highlightHtml(...); undefined has no
\* method includes, so the call throws a TypeError.
ScanHtml(ds, text, language, b) ==
  IF ~b.threw /\ language = Undefined THEN [ b EXCEPT !.threw = TRUE ]
  ELSE IF ~b.threw /\ includes(language, Str_html) THEN highlightHtml(ds, text, b)
  ELSE b

ScanDocument(ds, text, language) ==
  ScanHtml(ds, text, language, ScanCss(ds, text, language, EmptyBuckets))

(***************************************************************************)
(* hover.js: provideHover.  The host's getWordRangeAtPosition and lineAt   *)
(* work on the line of the position.                                       *)
(***************************************************************************)
\* getBcdStatus without the try: the exception of getStatus leaves it.
getBcdStatus_NoCatch(ds, key) == getStatus(ds, key)

\* getBcdStatus(key): try { return getStatus(null, key) } catch { return null }
getBcdStatus(ds, key) ==
  IF getStatus(ds, key) = Thrown THEN NullStatus ELSE getStatus(ds, key)

\* \w and '-', the class of the word expressions
WordChars == Letters \cup Digits \cup { "_", "-" }

\* The offsets of the start and the end of the line that holds offset.
LineStart(text, offset) == offset - positionAt(text, offset).character

LineEnd(text, offset) ==
  CHOOSE j \in offset .. Len(text) :
    /\ \A k \in offset .. (j - 1) : charAt(text, k) # "\n"
    /\ (j = Len(text) \/ charAt(text, j) = "\n")

\* document.lineAt(position.line).text, for the position at offset
lineAt(text, offset) == substring(text, LineStart(text, offset), LineEnd(text, offset))

\* The match at offset i of the line of the word expression: for CSS an
\* optional '@' or ':' and a run of [\w-], for HTML a letter and a run of
\* [\w-].
WordMatchAt(line, i, css) ==
  LET p == IF css /\ i + 1 < Len(line) /\ charAt(line, i) \in { "@", ":" } THEN i + 1 ELSE i
      q == IF css THEN p ELSE p + 1
      e == RunEnd(line, IF q <= Len(line) THEN q ELSE Len(line), WordChars)
  IN  IF /\ i < Len(line)
         /\ (css => e > p)
         /\ (~css => charAt(line, i) \in Letters)
        THEN [ found |-> TRUE, index |-> i, g1 |-> substring(line, i, e),
               g2 |-> << >>, lastIndex |-> e ]
        ELSE NoMatch

WordExec(line, lastIndex, css) ==
  LET at == { i \in lastIndex .. (Len(line) - 1) : WordMatchAt(line, i, css).found }
  IN  IF at = {} THEN NoMatch
      ELSE WordMatchAt(line, CHOOSE i \in at : \A m \in at : i <= m, css)

\* document.getWordRangeAtPosition(position, regex): the first match of the
\* line that holds the position, its end included.
RECURSIVE WordFrom(_, _, _, _)
WordFrom(line, lastIndex, charPos, css) ==
  LET m == WordExec(line, lastIndex, css)
  IN  IF ~m.found \/ m.index > charPos THEN NoMatch
      ELSE IF charPos <= m.lastIndex THEN m
      ELSE WordFrom(line, m.lastIndex, charPos, css)

getWordRangeAtPosition(line, charPos, css) == WordFrom(line, 0, charPos, css)

\* line.lastIndexOf(c, charPos) and line.indexOf(c, charPos)
lastIndexOf(line, c, charPos) ==
  LET at == { i \in 0 .. (Len(line) - 1) : i <= charPos /\ charAt(line, i) = c }
  IN  IF at = {} THEN -1 ELSE CHOOSE i \in at : \A j \in at : j <= i

indexOf(line, c, charPos) ==
  LET at == { i \in 0 .. (Len(line) - 1) : i >= charPos /\ charAt(line, i) = c }
  IN  IF at = {} THEN -1 ELSE CHOOSE i \in at : \A j \in at : i <= j

\* What provideHover did: the word and the key it looked up, the status of
\* getBcdStatus, whether it returned a tooltip and with which baseline text,
\* and whether an exception left it.
NoHover ==
  [ looked |-> FALSE, word |-> << >>, key |-> << >>, status |-> NullStatus,
    shown |-> FALSE, level |-> "none", link |-> FALSE, threw |-> FALSE ]

\* The baseline text of the tooltip: "Widely supported", "Newly available"
\* or "Limited support".
BaselineLevel(status) ==
  IF status.baseline = "high" THEN "widely"
  ELSE IF status.baseline = "low" THEN "newly"
  ELSE "limited"

\* isSupported(version): version !== false && version != null
isSupported(version) == version # "false" /\ version # "absent"

\* allUnsupported: the listed browsers that are not supported, in order
allUnsupported(status) ==
  SelectSeq(ListedBrowsers, LAMBDA browser : ~isSupported(status.support[browser]))

\* hasIssues without the test of the browsers
hasIssues_BaselineOnly(status) ==
  status.baseline = "low" \/ status.baseline = "false"

\* hasIssues: the tooltip gets the Get Alternatives link
hasIssues(status) ==
  \/ status.baseline = "low"
  \/ status.baseline = "false"
  \/ Len(allUnsupported(status)) > 0

\* provideHover from the call of getBcdStatus on.
HoverOf(word, key, status) ==
  IF status = Thrown
    THEN [ NoHover EXCEPT !.looked = TRUE, !.word = word, !.key = key,
                          !.status = status, !.threw = TRUE ]
  ELSE IF Falsy(status)
    THEN [ NoHover EXCEPT !.looked = TRUE, !.word = word, !.key = key ]
  ELSE [ looked |-> TRUE, word |-> word, key |-> key, status |-> status,
         shown |-> TRUE, level |-> BaselineLevel(status),
         link |-> hasIssues(status), threw |-> FALSE ]

\* The CSS branch of provideHover, with the word range found.
HoverCss(ds, w) ==
  IF ~w.found THEN NoHover
  ELSE HoverOf(w.g1, getCssBcdKey(w.g1), getBcdStatus(ds, getCssBcdKey(w.g1)))

\* The HTML branch of provideHover, with the word range found.
HoverHtml(ds, line, charPos, w) ==
  IF ~w.found THEN NoHover
  ELSE IF \/ lastIndexOf(line, "<", charPos) = -1
          \/ indexOf(line, ">", charPos) = -1
          \/ charPos < lastIndexOf(line, "<", charPos)
          \/ charPos > indexOf(line, ">", charPos)
    THEN NoHover
  ELSE HoverOf(w.g1, getHtmlBcdKey(w.g1), getBcdStatus(ds, getHtmlBcdKey(w.g1)))

HoverAt(ds, line, charPos, language) ==
  IF language \in CssLanguages
    THEN HoverCss(ds, getWordRangeAtPosition(line, charPos, TRUE))
  ELSE IF includes(language, Str_html)
    THEN HoverHtml(ds, line, charPos, getWordRangeAtPosition(line, charPos, FALSE))
  ELSE NoHover

\* provideHover(document, position), the position given by its offset
provideHover(ds, text, language, offset) ==
  HoverAt(ds, lineAt(text, offset), positionAt(text, offset).character, language)

(***************************************************************************)
(* The state: the host's editors and documents, the decorations the host   *)
(* holds for each editor, the timers of setTimeout, and the dataset.       *)
(***************************************************************************)
VARIABLES
  dataset,       \* the table behind getStatus; read-only
  text,          \* text[e]: editor e's document.getText()
  languageId,    \* languageId[e]: editor e's document.languageId
  activeEditor,  \* vscode.window.activeTextEditor, or NoEditor
  decorations,   \* decorations[e][type]: the ranges last set for that type
  timers,        \* pending setTimeout callbacks, oldest first
  phase,         \* "loaded", "active" after activate, "deactivated"
  lastOp,        \* history: the last call into highlight.js, and its editor
  uncaught,      \* history: an exception left the last call of highlightFeatures
  highlightEnabled,  \* the user's setting baselineChecker.highlightEnabled
  hover,         \* what the last call of provideHover did and returned
  chatPanel,     \* chatbot's chatPanel: the panel it refers to, or NoPanel
  chatHistory,   \* chatbot's chatHistory array
  panels,        \* the host's webview panels: created so far, open, html shown
  requests,      \* requests[r]: the call r of getAlternatives, where it stands
  questions      \* questions[q]: the askQuestion message q, where its handler stands

\* The state of highlight.js, hover.js and extension.js
editorVars ==
  << dataset, text, languageId, activeEditor, decorations, timers, phase,
     lastOp, uncaught, highlightEnabled, hover >>

\* The state of the chatbot module
chatVars == << chatPanel, chatHistory, panels, requests, questions >>

vars == << editorVars, chatVars >>

\* The editors of the window; editor e shows document e.
Editors == { 1, 2 }

\* activeTextEditor is undefined
NoEditor == 0

DecorationTypes == { "limited", "newly", "widely" }

NoDecorations == [ type \in DecorationTypes |-> << >> ]

\* The delay of setTimeout, in milliseconds.
Delay == 500

\* The time that passes in one Tick, in milliseconds.
TickMs == 250

\* How many callbacks may be pending at once.
MaxTimers == 2

\* lastOp after a handler: the call it made into highlight.js, or "none"
\* when it made none (no editor, or an edit).  again: the call is
\* highlightFeatures and so was the call before it, on the same editor, with
\* no edit in between.  held: the editor held a span when the call began.
NoOp == [ op |-> "none", editor |-> NoEditor, again |-> FALSE, held |-> FALSE ]

Op(name, editor) ==
  IF editor = NoEditor THEN NoOp
  ELSE [ op |-> name, editor |-> editor,
         again |-> /\ name = "highlightFeatures"
                   /\ lastOp.op = "highlightFeatures"
                   /\ lastOp.editor = editor,
         held |-> decorations[editor] # NoDecorations ]

(***************************************************************************)
(* The texts, languages and datasets the behaviours draw from.             *)
(***************************************************************************)
Str_css == << "c", "s", "s" >>

Str_display == << "d", "i", "s", "p", "l", "a", "y" >>

Str_dialog == << "d", "i", "a", "l", "o", "g" >>

\* "display: grid;"
CssExampleText == Str_display \o << ":", " ", "g", "r", "i", "d", ";" >>

\* "<dialog></dialog>"
HtmlExampleText == << "<" >> \o Str_dialog \o << ">", "<", "/" >> \o Str_dialog \o << ">" >>

\* The pieces CSS texts are made of: "a:b;", "B-a : a;", "a:\n;", "a", ";"
CssFragments ==
  { << "a", ":", "b", ";" >>,
    << "B", "-", "a", " ", ":", " ", "a", ";" >>,
    << "a", ":", "\n", ";" >>,
    << "a" >>, << ";" >> }

\* The pieces HTML texts are made of: "<a>", "</A>", "<b\n/>", "<a", "a", ">"
HtmlFragments ==
  { << "<", "a", ">" >>,
    << "<", "/", "A", ">" >>,
    << "<", "b", "\n", "/", ">" >>,
    << "<", "a" >>, << "a" >>, << ">" >> }

\* How many pieces a scanned text has at most.
MaxFragments == 2

RECURSIVE TextsOf(_, _)
TextsOf(fragments, n) ==
  IF n = 0 THEN { << >> }
  ELSE LET shorter == TextsOf(fragments, n - 1)
       IN  shorter \cup { t \o f : t \in shorter, f \in fragments }

\* The keys the datasets may hold; every other key is absent.
CssKeyPool ==
  { getCssBcdKey(<< "a" >>), CssValueKey(<< "a" >>, << "b" >>),
    getCssBcdKey(<< "B", "-", "a" >>) }

HtmlKeyPool == { getHtmlBcdKey(<< "a" >>), getHtmlBcdKey(<< "b" >>) }

\* Every table that holds one or two keys of the pool, or none.
DatasetsOver(pool) ==
  UNION { [ held -> Returned ] : held \in { h \in SUBSET pool : h = {} \/ \E k, l \in pool : h = { k, l } } }

CssExampleDataset == [ key \in { getCssBcdKey(Str_display) } |-> Status("high") ]

HtmlExampleDataset == [ key \in { getHtmlBcdKey(Str_dialog) } |-> Status("low") ]

(***************************************************************************)
(* highlightFeatures and clearHighlights                                   *)
(***************************************************************************)
\* editor.setDecorations(decorationTypes[type], ranges) replaces the ranges
\* the editor holds for that type.
setDecorations(deco, editor, type, ranges) ==
  [ deco EXCEPT ![editor] = [ @ EXCEPT ![type] = ranges ] ]

\* highlightFeatures setting only the sets it found spans for.
setRanges_KeepsOld(deco, editor, type, ranges) ==
  IF ranges = << >> THEN deco ELSE setDecorations(deco, editor, type, ranges)

setAllDecorations_KeepsOld(editor, b) ==
  /\ decorations' =
       IF b.threw THEN decorations
       ELSE setRanges_KeepsOld(
              setRanges_KeepsOld(
                setRanges_KeepsOld(decorations, editor, "limited", b.limited),
                editor, "newly", b.newly),
              editor, "widely", b.widely)
  /\ uncaught' = b.threw

highlightFeatures_KeepsOld(editor) ==
  IF editor = NoEditor
    THEN UNCHANGED << decorations, uncaught >>
    ELSE setAllDecorations_KeepsOld(
           editor, ScanDocument(dataset, text[editor], languageId[editor]))

\* highlightFeatures adding its spans to the ones the editor holds.
setAllDecorations_Adds(editor, b) ==
  /\ decorations' =
       IF b.threw THEN decorations
       ELSE setDecorations(
              setDecorations(
                setDecorations(decorations, editor, "limited",
                               decorations[editor].limited \o b.limited),
                editor, "newly", decorations[editor].newly \o b.newly),
              editor, "widely", decorations[editor].widely \o b.widely)
  /\ uncaught' = b.threw

highlightFeatures_Adds(editor) ==
  IF editor = NoEditor
    THEN UNCHANGED << decorations, uncaught >>
    ELSE setAllDecorations_Adds(
           editor, ScanDocument(dataset, text[editor], languageId[editor]))

\* The three calls of editor.setDecorations that end highlightFeatures, with
\* the arrays b of the scan; an exception of the scan leaves before them.
setAllDecorations(editor, b) ==
  /\ decorations' =
       IF b.threw THEN decorations
       ELSE setDecorations(
              setDecorations(
                setDecorations(decorations, editor, "limited", b.limited),
                editor, "newly", b.newly),
              editor, "widely", b.widely)
  /\ uncaught' = b.threw

highlightFeatures(editor) ==
  IF editor = NoEditor
    THEN UNCHANGED << decorations, uncaught >>
    ELSE setAllDecorations(
           editor, ScanDocument(dataset, text[editor], languageId[editor]))

\* clearHighlights without the call for the widely set.
clearHighlights_KeepsWidely(editor) ==
  IF editor = NoEditor
    THEN UNCHANGED decorations
    ELSE decorations' =
           setDecorations(
             setDecorations(decorations, editor, "limited", << >>),
             editor, "newly", << >>)

clearHighlights(editor) ==
  IF editor = NoEditor
    THEN UNCHANGED decorations
    ELSE decorations' =
           setDecorations(
             setDecorations(
               setDecorations(decorations, editor, "limited", << >>),
               editor, "newly", << >>),
             editor, "widely", << >>)

(***************************************************************************)
(* The handlers of extension.js                                            *)
(***************************************************************************)
\* activate(context): registers the handlers and highlights the open file.
Activate ==
  /\ phase = "loaded"
  /\ phase' = "active"
  /\ highlightFeatures(activeEditor)
  /\ lastOp' = Op("highlightFeatures", activeEditor)
  /\ UNCHANGED << chatVars, dataset, highlightEnabled, hover, text, languageId, activeEditor, timers >>

\* The command baseline-checker.checkFile
CheckFileCommand ==
  /\ phase = "active"
  /\ highlightFeatures(activeEditor)
  /\ lastOp' = Op("highlightFeatures", activeEditor)
  /\ UNCHANGED << chatVars, dataset, highlightEnabled, hover, text, languageId, activeEditor, timers, phase >>

\* The command baseline-checker.clearHighlights
ClearHighlightsCommand ==
  /\ phase = "active"
  /\ clearHighlights(activeEditor)
  /\ lastOp' = Op("clearHighlights", activeEditor)
  /\ UNCHANGED << chatVars, dataset, highlightEnabled, hover, text, languageId, activeEditor, timers, phase, uncaught >>

\* The user makes editor the active one (or none); the listener of
\* onDidChangeActiveTextEditor runs while it is registered.
OnDidChangeActiveTextEditor(editor) ==
  /\ editor # activeEditor
  /\ activeEditor' = editor
  /\ IF phase = "active"
       THEN /\ highlightFeatures(editor)
            /\ lastOp' = Op("highlightFeatures", editor)
       ELSE UNCHANGED << decorations, uncaught, lastOp >>
  /\ UNCHANGED << chatVars, dataset, highlightEnabled, hover, text, languageId, timers, phase >>

\* The listener of onDidChangeTextDocument if it cancelled the callbacks that
\* wait before it scheduled its own
OnDidChangeTextDocument_Debounced(document, newText) ==
  /\ newText # text[document]
  /\ text' = [ text EXCEPT ![document] = newText ]
  /\ IF phase = "active" /\ activeEditor # NoEditor /\ document = activeEditor
       THEN timers' = << [ editor |-> activeEditor, remaining |-> Delay ] >>
       ELSE UNCHANGED timers
  /\ lastOp' = NoOp
  /\ UNCHANGED << chatVars, dataset, highlightEnabled, hover, languageId, activeEditor, decorations, phase, uncaught >>

\* The document of editor document changes to newText; the listener of
\* onDidChangeTextDocument schedules a scan of the active editor when the
\* document is the active editor's; the listener runs while it is registered.
OnDidChangeTextDocument(document, newText) ==
  /\ newText # text[document]
  /\ text' = [ text EXCEPT ![document] = newText ]
  /\ IF phase = "active" /\ activeEditor # NoEditor /\ document = activeEditor
       THEN /\ Len(timers) < MaxTimers
            /\ timers' = Append(timers, [ editor |-> activeEditor, remaining |-> Delay ])
       ELSE UNCHANGED timers
  /\ lastOp' = NoOp
  /\ UNCHANGED << chatVars, dataset, highlightEnabled, hover, languageId, activeEditor, decorations, phase, uncaught >>

\* TickMs milliseconds pass.
Tick ==
  /\ timers # << >>
  /\ \E i \in DOMAIN timers : timers[i].remaining > 0
  /\ timers' = [ i \in DOMAIN timers |->
                   [ timers[i] EXCEPT !.remaining = IF @ > TickMs THEN @ - TickMs ELSE 0 ] ]
  /\ UNCHANGED << chatVars, dataset, highlightEnabled, hover, text, languageId, activeEditor, decorations, phase,
                  lastOp, uncaught >>

\* The oldest callback of setTimeout runs: () => highlightFeatures(editor)
TimerFires ==
  /\ timers # << >>
  /\ Head(timers).remaining = 0
  /\ timers' = Tail(timers)
  /\ highlightFeatures(Head(timers).editor)
  /\ lastOp' = Op("highlightFeatures", Head(timers).editor)
  /\ UNCHANGED << chatVars, dataset, highlightEnabled, hover, text, languageId, activeEditor, phase >>

\* The host asks the provider for the hover at a position of the document of
\* an editor; the provider is registered while the extension is active.
ProvideHover(editor, offset) ==
  /\ phase = "active"
  /\ hover' = provideHover(dataset, text[editor], languageId[editor], offset)
  /\ UNCHANGED << chatVars, dataset, text, languageId, activeEditor, decorations, timers, phase,
                  lastOp, uncaught, highlightEnabled >>

\* deactivate()
Deactivate ==
  /\ phase = "active"
  /\ phase' = "deactivated"
  /\ clearHighlights(activeEditor)
  /\ lastOp' = Op("clearHighlights", activeEditor)
  /\ UNCHANGED << chatVars, dataset, highlightEnabled, hover, text, languageId, activeEditor, timers, uncaught >>

(***************************************************************************)
(* The chatbot: getAlternatives, the chat panel and its follow-up          *)
(* questions.  chatPanel and chatHistory are the module's two globals.  A  *)
(* call of getAlternatives and a handler of askQuestion both wait for the   *)
(* model's reply, and anything else may run while they wait.               *)
(***************************************************************************)
\* chatPanel is null
NoPanel == 0

\* chatHistory[..].session is undefined
NoSession == 0

\* The features asked about
Features == { "grid", "dialog" }

\* chatHistory[..].feature is undefined
NoFeature == "undefined"

\* Calls of getAlternatives, askQuestion messages and panels the host creates
MaxRequests == 2
MaxQuestions == 2
MaxPanels == 2

Requests == 1..MaxRequests
Questions == 1..MaxQuestions

\* The entry { feature, type, baseline, unsupported } of chatHistory
Context(feature) == [ feature |-> feature, session |-> NoSession ]

\* The entry { session, initialResponse } of chatHistory; the calls of
\* getAlternatives are numbered in the order they are made, and so are the
\* askQuestion messages; the session of call r is named r
SessionEntry(r) == [ feature |-> NoFeature, session |-> r ]

IdleRequest == [ pc |-> "idle", feature |-> NoFeature ]

\* pc: "idle", "sending" while session.sendMessage is awaited, then
\* "answered" (appendContent posted), "error" (showError posted) or
\* "unhandled" (the handler's promise rejected).  session and hint: what
\* handleUserQuestion took from chatHistory.  panel: the panel whose webview
\* sent the message.  replies: the appendContent and showError messages
\* posted for it.  error: the message of the error shown.
IdleQuestion ==
  [ pc |-> "idle", session |-> NoSession, hint |-> NoFeature,
    panel |-> NoPanel, replies |-> 0, error |-> "none" ]

\* No panel was created yet.  open: the panels not disposed.  shown[p]: the
\* feature of the html of panel p.  waiting: the panels whose webview has
\* its input disabled, from send() to the next appendContent or showError.
NoPanels ==
  [ created |-> 0, open |-> {}, waiting |-> {},
    shown |-> [ p \in 1..MaxPanels |-> NoFeature ] ]

InitChat ==
  /\ chatPanel = NoPanel
  /\ chatHistory = << >>
  /\ panels = NoPanels
  /\ requests = [ r \in Requests |-> IdleRequest ]
  /\ questions = [ q \in Questions |-> IdleQuestion ]

\* showChatPanel that creates a panel whether or not one is open
showChatPanel_AlwaysCreates(feature) ==
  /\ chatPanel' = panels.created + 1
  /\ panels' = [ panels EXCEPT !.created = @ + 1,
                               !.open = @ \cup { panels.created + 1 },
                               !.shown[panels.created + 1] = feature ]

\* showChatPanel(context, feature, type, content): create the panel when
\* chatPanel is null, reveal it otherwise, and set its html, which reloads
\* the webview
showChatPanel(feature) ==
  IF chatPanel = NoPanel
    THEN /\ chatPanel' = panels.created + 1
         /\ panels' = [ panels EXCEPT !.created = @ + 1,
                                      !.open = @ \cup { panels.created + 1 },
                                      !.shown[panels.created + 1] = feature ]
    ELSE /\ chatPanel' = chatPanel
         /\ panels' = [ panels EXCEPT !.shown[chatPanel] = feature,
                                      !.waiting = @ \ { chatPanel } ]

\* getAlternatives(context, args) up to its wait for session.sendMessage:
\* chatHistory becomes the one context entry of the feature
GetAlternatives(r, feature) ==
  /\ requests[r].pc = "idle"
  /\ \A o \in Requests : o < r => requests[o].pc # "idle"
  /\ chatHistory' = << Context(feature) >>
  /\ requests' = [ requests EXCEPT ![r] = [ pc |-> "sending", feature |-> feature ] ]
  /\ UNCHANGED << editorVars, chatPanel, panels, questions >>

\* session.sendMessage(prompt) resolves: the session is pushed and the panel
\* is shown
AlternativesArrive(r) ==
  /\ requests[r].pc = "sending"
  /\ chatPanel = NoPanel => panels.created < MaxPanels
  /\ chatHistory' = Append(chatHistory, SessionEntry(r))
  /\ showChatPanel(requests[r].feature)
  /\ requests' = [ requests EXCEPT ![r].pc = "done" ]
  /\ UNCHANGED << editorVars, questions >>

\* session.sendMessage(prompt) rejects: the catch shows an error message
AlternativesFail(r) ==
  /\ requests[r].pc = "sending"
  /\ requests' = [ requests EXCEPT ![r].pc = "failed" ]
  /\ UNCHANGED << editorVars, chatPanel, chatHistory, panels, questions >>

\* the onDidDispose callback: chatPanel = null; chatHistory = []
onDidDispose ==
  /\ chatPanel' = NoPanel
  /\ chatHistory' = << >>

\* The user closes panel p
ClosePanel(p) ==
  /\ p \in panels.open
  /\ panels' = [ panels EXCEPT !.open = @ \ { p }, !.waiting = @ \ { p } ]
  /\ onDidDispose
  /\ UNCHANGED << editorVars, requests, questions >>

\* chatHistory[chatHistory.length - 1]?.session
LastSession(history) ==
  IF Len(history) = 0 THEN NoSession ELSE history[Len(history)].session

\* chatPanel.webview.postMessage of an appendContent or showError for
\* question q; it throws when chatPanel is null, inside the handler's try for
\* appendContent, and again inside its catch, which nothing catches
PostReply(q, pc, error) ==
  IF chatPanel = NoPanel
    THEN /\ questions' = [ questions EXCEPT ![q].pc = "unhandled" ]
         /\ panels' = panels
    ELSE /\ questions' = [ questions EXCEPT ![q].pc = pc,
                                            ![q].replies = @ + 1,
                                            ![q].error = error ]
         /\ panels' = [ panels EXCEPT !.waiting = @ \ { chatPanel } ]

\* The webview of panel p sends askQuestion, short for a text under 15
\* characters: the onDidReceiveMessage handler up to the wait of
\* handleUserQuestion for session.sendMessage, or to its end when there is
\* no session
AskQuestion(q, p, short) ==
  /\ questions[q].pc = "idle"
  /\ \A o \in Questions : o < q => questions[o].pc # "idle"
  /\ p \in panels.open \ panels.waiting
  /\ IF chatPanel = NoPanel
       THEN /\ questions' = [ questions EXCEPT ![q].pc = "unhandled", ![q].panel = p ]
            /\ panels' = [ panels EXCEPT !.waiting = @ \cup { p } ]
       ELSE IF LastSession(chatHistory) = NoSession
         THEN /\ questions' = [ questions EXCEPT ![q] =
                   [ IdleQuestion EXCEPT !.pc = "error", !.panel = p, !.replies = 1,
                                         !.error = "No active session" ] ]
              /\ panels' = [ panels EXCEPT !.waiting = (@ \cup { p }) \ { chatPanel } ]
         ELSE /\ questions' = [ questions EXCEPT ![q] =
                   [ IdleQuestion EXCEPT !.pc = "sending", !.panel = p,
                                         !.session = LastSession(chatHistory),
                                         !.hint = IF short THEN chatHistory[1].feature
                                                           ELSE NoFeature ] ]
              /\ panels' = [ panels EXCEPT !.waiting = @ \cup { p } ]
  /\ UNCHANGED << editorVars, chatPanel, chatHistory, requests >>

\* session.sendMessage of the question resolves: appendContent is posted
AnswerArrives(q) ==
  /\ questions[q].pc = "sending"
  /\ PostReply(q, "answered", "none")
  /\ UNCHANGED << editorVars, chatPanel, chatHistory, requests >>

\* session.sendMessage of the question rejects: handleUserQuestion rethrows
\* and the handler's catch posts showError
AnswerFails(q) ==
  /\ questions[q].pc = "sending"
  /\ PostReply(q, "error", "failed")
  /\ UNCHANGED << editorVars, chatPanel, chatHistory, requests >>

\* The chatbot alone
NextChat ==
  \/ \E r \in Requests, feature \in Features : GetAlternatives(r, feature)
  \/ \E r \in Requests : AlternativesArrive(r)
  \/ \E r \in Requests : AlternativesFail(r)
  \/ \E p \in 1..MaxPanels : ClosePanel(p)
  \/ \E q \in Questions, p \in 1..MaxPanels, short \in BOOLEAN : AskQuestion(q, p, short)
  \/ \E q \in Questions : AnswerArrives(q)
  \/ \E q \in Questions : AnswerFails(q)

(***************************************************************************)
(* The editor: two documents, a CSS one and an HTML one.                   *)
(***************************************************************************)
\* The texts the documents take: "", "a:b;" and "display: grid;" in the CSS
\* document, "", "<a></A>" and "<dialog></dialog>" in the HTML document.
EditTexts(editor) ==
  IF editor = 1
    THEN { << >>, << "a", ":", "b", ";" >>, CssExampleText }
    ELSE { << >>, << "<", "a", ">", "<", "/", "A", ">" >>, HtmlExampleText }

\* A dataset that holds keys of every tier, and the empty dataset.
MixedDataset ==
  CssExampleDataset @@ HtmlExampleDataset
    @@ (getCssBcdKey(<< "a" >>) :> Status("low"))
    @@ (CssValueKey(<< "a" >>, << "b" >>) :> NullStatus)
    @@ (getHtmlBcdKey(<< "a" >>) :> Status("false"))

EmptyDataset == [ key \in {} |-> NullStatus ]

EditorDatasets == { MixedDataset, EmptyDataset }

Init ==
  /\ dataset \in EditorDatasets
  /\ text \in { t \in [ Editors -> EditTexts(1) \cup EditTexts(2) ] :
                  \A e \in Editors : t[e] \in EditTexts(e) }
  /\ languageId = (1 :> Str_css @@ 2 :> Str_html)
  /\ activeEditor \in Editors \cup { NoEditor }
  /\ decorations = [ e \in Editors |-> NoDecorations ]
  /\ timers = << >>
  /\ phase = "loaded"
  /\ lastOp = NoOp
  /\ uncaught = FALSE
  /\ highlightEnabled \in BOOLEAN
  /\ hover = NoHover
  /\ InitChat

Next ==
  \/ Activate
  \/ CheckFileCommand
  \/ ClearHighlightsCommand
  \/ \E editor \in Editors \cup { NoEditor } : OnDidChangeActiveTextEditor(editor)
  \/ \E document \in Editors : \E newText \in EditTexts(document) :
       OnDidChangeTextDocument(document, newText)
  \/ Tick
  \/ TimerFires
  \/ Deactivate

Spec == Init /\ [][Next]_vars

(***************************************************************************)
(* The scan alone: one document, drawn with its language and dataset, and  *)
(* the check-file command run on it.                                       *)
(***************************************************************************)
ScanInputs ==
  ({ Str_css } \X TextsOf(CssFragments, MaxFragments) \X DatasetsOver(CssKeyPool))
    \cup ({ Str_html } \X TextsOf(HtmlFragments, MaxFragments) \X DatasetsOver(HtmlKeyPool))
    \cup { << Str_css, CssExampleText, CssExampleDataset >>,
           << Str_html, HtmlExampleText, HtmlExampleDataset >> }

InitScan ==
  /\ \E input \in ScanInputs :
       /\ languageId = (1 :> input[1] @@ 2 :> Str_html)
       /\ text = (1 :> input[2] @@ 2 :> << >>)
       /\ dataset = input[3]
  /\ activeEditor = 1
  /\ decorations = [ e \in Editors |-> NoDecorations ]
  /\ timers = << >>
  /\ phase = "active"
  /\ lastOp = NoOp
  /\ uncaught = FALSE
  /\ highlightEnabled = TRUE
  /\ hover = NoHover
  /\ InitChat

NextScan == CheckFileCommand

SpecScan == InitScan /\ [][NextScan]_vars

(***************************************************************************)
(* The dispatch on the language: one document that holds declarations and  *)
(* tags, in a language of either family or of none, and a dataset that     *)
(* holds keys of both families.                                            *)
(***************************************************************************)
Str_scss == << "s", "c", "s", "s" >>

Str_less == << "l", "e", "s", "s" >>

Str_django_html == << "d", "j", "a", "n", "g", "o", "-" >> \o Str_html

Str_javascript == << "j", "a", "v", "a", "s", "c", "r", "i", "p", "t" >>

DispatchLanguages ==
  { Str_css, Str_scss, Str_less, Str_html, Str_django_html, Str_javascript }

\* The pieces of the mixed texts: "a:b;", "B-a : a;", "<a>", "</A>"
MixedFragments ==
  { << "a", ":", "b", ";" >>,
    << "B", "-", "a", " ", ":", " ", "a", ";" >>,
    << "<", "a", ">" >>,
    << "<", "/", "A", ">" >> }

MixedKeyPool ==
  { getCssBcdKey(<< "a" >>), getCssBcdKey(<< "B", "-", "a" >>), getHtmlBcdKey(<< "a" >>) }

DispatchInputs ==
  DispatchLanguages \X TextsOf(MixedFragments, MaxFragments) \X DatasetsOver(MixedKeyPool)

InitDispatch ==
  /\ \E input \in DispatchInputs :
       /\ languageId = (1 :> input[1] @@ 2 :> Str_html)
       /\ text = (1 :> input[2] @@ 2 :> << >>)
       /\ dataset = input[3]
  /\ activeEditor = 1
  /\ decorations = [ e \in Editors |-> NoDecorations ]
  /\ timers = << >>
  /\ phase = "active"
  /\ lastOp = NoOp
  /\ uncaught = FALSE
  /\ highlightEnabled = TRUE
  /\ hover = NoHover
  /\ InitChat

NextDispatch == CheckFileCommand

SpecDispatch == InitDispatch /\ [][NextDispatch]_vars

(***************************************************************************)
(* The scan and the hover on one document: the check-file command, and     *)
(* provideHover at every position.                                         *)
(***************************************************************************)
\* How many pieces a hovered text has at most.
MaxHoverFragments == 1

HoverInputs ==
  ({ Str_css } \X TextsOf(CssFragments, MaxHoverFragments) \X DatasetsOver(CssKeyPool))
    \cup ({ Str_html } \X TextsOf(HtmlFragments, MaxHoverFragments)
            \X DatasetsOver(HtmlKeyPool))

InitHover ==
  /\ \E input \in HoverInputs :
       /\ languageId = (1 :> input[1] @@ 2 :> Str_html)
       /\ text = (1 :> input[2] @@ 2 :> << >>)
       /\ dataset = input[3]
  /\ activeEditor = 1
  /\ decorations = [ e \in Editors |-> NoDecorations ]
  /\ timers = << >>
  /\ phase = "active"
  /\ lastOp = NoOp
  /\ uncaught = FALSE
  /\ highlightEnabled = TRUE
  /\ hover = NoHover
  /\ InitChat

NextHover ==
  \/ CheckFileCommand
  \/ \E offset \in 0 .. Len(text[1]) : ProvideHover(1, offset)

SpecHover == InitHover /\ [][NextHover]_vars

(***************************************************************************)
(* The hover over a feature whose status has any support data.             *)
(***************************************************************************)
\* The support data of a status: every browser with a version, none at all,
\* true for one browser, false for one, and one browser missing.
Supports ==
  { FullSupport, NoSupport,
    [ FullSupport EXCEPT !["chrome"] = "true" ],
    [ FullSupport EXCEPT !["safari"] = "false" ],
    [ FullSupport EXCEPT !["samsung_internet"] = "absent" ] }

SupportStatuses ==
  { NullStatus } \cup { StatusWith(b, support) : b \in Baselines, support \in Supports }

\* The tables that hold the key of the property a, of the tag a, or no key
SupportDatasets ==
  UNION { [ { key } -> SupportStatuses ] :
            key \in { getCssBcdKey(<< "a" >>), getHtmlBcdKey(<< "a" >>) } }
    \cup { EmptyDataset }

InitHoverLink ==
  /\ dataset \in SupportDatasets
  /\ languageId \in { (1 :> Str_css @@ 2 :> Str_html), (1 :> Str_html @@ 2 :> Str_html) }
  /\ text = (1 :> (IF languageId[1] = Str_css THEN << "a", ":", "b", ";" >>
                                              ELSE << "<", "a", ">" >>)
            @@ 2 :> << >>)
  /\ activeEditor = 1
  /\ decorations = [ e \in Editors |-> NoDecorations ]
  /\ timers = << >>
  /\ phase = "active"
  /\ lastOp = NoOp
  /\ uncaught = FALSE
  /\ highlightEnabled = TRUE
  /\ hover = NoHover
  /\ InitChat

NextHoverLink == \E offset \in 0 .. Len(text[1]) : ProvideHover(1, offset)

SpecHoverLink == InitHoverLink /\ [][NextHoverLink]_vars

(***************************************************************************)
(* The host without an editor or without a language id: the commands and a *)
(* switch of editor, on a document whose language id may be undefined.     *)
(***************************************************************************)
InitNoHost ==
  /\ dataset \in EditorDatasets
  /\ languageId \in [ Editors -> { Undefined, Str_css, Str_html } ]
  /\ text \in [ Editors -> TextsOf(MixedFragments, 1) ]
  /\ activeEditor \in Editors \cup { NoEditor }
  /\ decorations = [ e \in Editors |-> NoDecorations ]
  /\ timers = << >>
  /\ phase = "active"
  /\ lastOp = NoOp
  /\ uncaught = FALSE
  /\ highlightEnabled = TRUE
  /\ hover = NoHover
  /\ InitChat

NextNoHost ==
  \/ CheckFileCommand
  \/ ClearHighlightsCommand
  \/ \E editor \in Editors \cup { NoEditor } : OnDidChangeActiveTextEditor(editor)

SpecNoHost == InitNoHost /\ [][NextNoHost]_vars

(***************************************************************************)
(* The chatbot of an activated extension, the editors left alone.          *)
(***************************************************************************)
InitChatbot ==
  /\ dataset = EmptyDataset
  /\ languageId = [ e \in Editors |-> IF e = 1 THEN Str_css ELSE Str_html ]
  /\ text = [ e \in Editors |-> << >> ]
  /\ activeEditor = NoEditor
  /\ decorations = [ e \in Editors |-> NoDecorations ]
  /\ timers = << >>
  /\ phase = "active"
  /\ lastOp = NoOp
  /\ uncaught = FALSE
  /\ highlightEnabled = TRUE
  /\ hover = NoHover
  /\ InitChat

SpecChat == InitChatbot /\ [][NextChat]_vars

(***************************************************************************)
(* What the properties below are stated with.                              *)
(***************************************************************************)
\* A call of highlightFeatures was the last call into highlight.js.
PostScan == lastOp.op = "highlightFeatures"

\* The statuses of the enumerated domain: null, and baseline false, "low"
\* and "high".
EnumeratedStatuses == { NullStatus, Status("false"), Status("low"), Status("high") }

\* The tier of a status: limited for null and false, newly for "low", widely
\* for "high"; "none" for what has no tier.
ExpectedTier(status) ==
  CASE status = NullStatus       -> "limited"
    [] status = Status("false")  -> "limited"
    [] status = Status("low")    -> "newly"
    [] status = Status("high")   -> "widely"
    [] OTHER                     -> "none"

\* The span of the characters from offset from to offset to.
SpanOf(txt, from, to) == Range(positionAt(txt, from), positionAt(txt, to))

Count(seq, x) == Cardinality({ i \in DOMAIN seq : seq[i] = x })

\* How many times a span occurs in the three sets of an editor.
CountAll(deco, x) == Count(deco.limited, x) + Count(deco.newly, x) + Count(deco.widely, x)

IsCss(e) == languageId[e] \in CssLanguages

IsHtml(e) == includes(languageId[e], Str_html)

\* The lookups of a CSS scan in the order they are made: for each
\* declaration the property key, then the property.value key if the trimmed
\* value is not empty.
RECURSIVE CssLookups(_, _)
CssLookups(txt, lastIndex) ==
  LET m == CssExec(txt, lastIndex)
      value == trim(m.g2)
      one == [ from |-> m.index, to |-> m.index + Len(m.g1), key |-> getCssBcdKey(m.g1) ]
      two == [ one EXCEPT !.key = CssValueKey(m.g1, value) ]
  IN  IF ~m.found THEN << >>
      ELSE (IF value = << >> THEN << one >> ELSE << one, two >>)
             \o CssLookups(txt, m.lastIndex)

\* A tag starts at offset i: '<', an optional '/', a letter.
IsTagStart(txt, i) ==
  /\ i < Len(txt)
  /\ charAt(txt, i) = "<"
  /\ \/ i + 1 < Len(txt) /\ charAt(txt, i + 1) \in Letters
     \/ /\ i + 2 < Len(txt)
        /\ charAt(txt, i + 1) = "/"
        /\ charAt(txt, i + 2) \in Letters

\* The offset of the name of the tag that starts at offset i, and the offset
\* after the name.
TagNameFrom(txt, i) == IF charAt(txt, i + 1) = "/" THEN i + 2 ELSE i + 1

TagNameTo(txt, i) ==
  LET p == TagNameFrom(txt, i)
      after == { j \in p .. Len(txt) : j = Len(txt) \/ charAt(txt, j) \notin TagNameChars }
  IN  CHOOSE j \in after : \A k \in after : j <= k

\* The lower-cased name of the tag that starts at offset i.
TagNameAt(txt, i) == toLowerCase(substring(txt, TagNameFrom(txt, i), TagNameTo(txt, i)))

TagStarts(txt) == { i \in 0 .. (Len(txt) - 1) : IsTagStart(txt, i) }

\* The occurrences of a tag: the starts of the opening and closing tags with
\* that name, in any letter case, whose name is followed by white space, '>'
\* or '/'.
Occurrences(txt, tag) ==
  { i \in TagStarts(txt) :
      /\ TagNameAt(txt, i) = tag
      /\ TagNameTo(txt, i) < Len(txt)
      /\ charAt(txt, TagNameTo(txt, i)) \in TagDelimiters }

\* The set S of numbers as an increasing sequence.
RECURSIVE Ascending(_)
Ascending(S) ==
  IF S = {} THEN << >>
  ELSE LET least == CHOOSE x \in S : \A y \in S : x <= y
       IN  << least >> \o Ascending(S \ { least })

\* The lookups behind the spans of an HTML scan, in the order the spans are
\* emitted: the tags by first appearance, each with its occurrences in text
\* order, if its lookup returns a status.
RECURSIVE HtmlLookups(_, _, _, _)
HtmlLookups(ds, txt, starts, seen) ==
  IF starts = << >> THEN << >>
  ELSE LET tag == TagNameAt(txt, Head(starts))
           key == getHtmlBcdKey(tag)
           occ == Ascending(Occurrences(txt, tag))
           mine == [ n \in DOMAIN occ |->
                       [ from |-> TagNameFrom(txt, occ[n]),
                         to   |-> TagNameFrom(txt, occ[n]) + Len(tag),
                         key  |-> key ] ]
       IN  IF tag \in seen THEN HtmlLookups(ds, txt, Tail(starts), seen)
           ELSE (IF getStatus(ds, key).kind = "status" THEN mine ELSE << >>)
                  \o HtmlLookups(ds, txt, Tail(starts), seen \cup { tag })

\* The lookups of the scan of editor e's document.
Lookups(e) ==
  (IF IsCss(e) THEN CssLookups(text[e], 0) ELSE << >>)
    \o (IF IsHtml(e)
          THEN HtmlLookups(dataset, text[e], Ascending(TagStarts(text[e])), {})
          ELSE << >>)

\* The spans of the lookups whose status has the tier, in order.
RECURSIVE SpansOfTier(_, _, _)
SpansOfTier(e, lookups, tier) ==
  IF lookups = << >> THEN << >>
  ELSE LET l == Head(lookups)
       IN  (IF ExpectedTier(getStatus(dataset, l.key)) = tier
              THEN << SpanOf(text[e], l.from, l.to) >> ELSE << >>)
             \o SpansOfTier(e, Tail(lookups), tier)

(***************************************************************************)
(* C1.  A null status and baseline false put the span in limited, baseline *)
(* "low" in newly, baseline "high" in widely, and in no other set: added   *)
(* to the sets a scan has filled, a span of an enumerated status extends   *)
(* exactly the set of its tier by exactly that span.                       *)
(***************************************************************************)
C1_ClassifyEnumerated ==
  PostScan =>
    LET e == lastOp.editor
        b == decorations[e]
    IN  \A status \in EnumeratedStatuses : \A index \in 0 .. Len(text[e]) :
          LET after == pushByStatus(index, 1, status, text[e], b)
          IN  \A type \in DecorationTypes :
                after[type] =
                  IF type = ExpectedTier(status)
                    THEN Append(b[type], SpanOf(text[e], index, index + 1))
                    ELSE b[type]

\* A scan that classified a null status and a non-null one.
C1_Witness ==
  /\ PostScan
  /\ getStatus(dataset, CssValueKey(<< "a" >>, << "b" >>)) = NullStatus
  /\ decorations[lastOp.editor].limited # << >>
  /\ decorations[lastOp.editor].newly # << >>

(***************************************************************************)
(* C2.  A status whose baseline is neither false, "low" nor "high" puts    *)
(* the span of its feature in the limited set.                             *)
(***************************************************************************)
C2_OtherBaselineIsLimited ==
  PostScan =>
    LET e == lastOp.editor
        lookups == Lookups(e)
    IN  \A n \in DOMAIN lookups :
          getStatus(dataset, lookups[n].key) = Status("other") =>
            Count(decorations[e].limited,
                  SpanOf(text[e], lookups[n].from, lookups[n].to)) >= 1

(***************************************************************************)
(* C3.  As claimed: every key constructed during a scan whose lookup       *)
(* returns no status or throws produces a span in the limited set.         *)
(***************************************************************************)
\* The first attempt of every HTML key: the name of the first tag with it.
HtmlAttempts(txt) ==
  { [ from |-> TagNameFrom(txt, i), to |-> TagNameTo(txt, i),
      key |-> getHtmlBcdKey(TagNameAt(txt, i)) ] :
      i \in { j \in TagStarts(txt) :
                \A k \in TagStarts(txt) : TagNameAt(txt, k) = TagNameAt(txt, j) => j <= k } }

CssAttempts(txt) == LET l == CssLookups(txt, 0) IN { l[n] : n \in DOMAIN l }

Attempts(e) ==
  (IF IsCss(e) THEN CssAttempts(text[e]) ELSE {})
    \cup (IF IsHtml(e) THEN HtmlAttempts(text[e]) ELSE {})

C3_FailedLookupIsLimited ==
  PostScan =>
    LET e == lastOp.editor
    IN  \A a \in Attempts(e) :
          getStatus(dataset, a.key) \in { Thrown, NullStatus } =>
            Count(decorations[e].limited, SpanOf(text[e], a.from, a.to)) >= 1

(***************************************************************************)
(* C3, amended.  A CSS key whose lookup returns no status produces a span  *)
(* in the limited set; a CSS key whose lookup throws produces no span; an  *)
(* HTML tag whose lookup returns no status or throws produces no span.     *)
(***************************************************************************)
C3_FailedLookups ==
  PostScan =>
    LET e == lastOp.editor
        d == decorations[e]
        css == IF IsCss(e) THEN CssAttempts(text[e]) ELSE {}
        html == IF IsHtml(e) THEN TagStarts(text[e]) ELSE {}
        With(a, S) == Cardinality({ c \in css :
                        c.from = a.from /\ getStatus(dataset, c.key) \in S })
    IN  /\ \A a \in css :
             LET span == SpanOf(text[e], a.from, a.to)
             IN  /\ Count(d.limited, span) >= With(a, { NullStatus })
                 /\ CountAll(d, span) <= With(a, Returned)
        /\ \A i \in html :
             getStatus(dataset, getHtmlBcdKey(TagNameAt(text[e], i))) \in { Thrown, NullStatus }
               => CountAll(d, SpanOf(text[e], TagNameFrom(text[e], i), TagNameTo(text[e], i))) = 0

\* A CSS scan of a declaration whose property key throws and whose
\* property.value key returns no status, and an HTML scan of a tag whose key
\* returns no status.
C3_Witness ==
  /\ PostScan
  /\ \/ /\ IsCss(lastOp.editor)
        /\ \E a, c \in CssAttempts(text[lastOp.editor]) :
             /\ a.from = c.from
             /\ getStatus(dataset, a.key) = Thrown
             /\ getStatus(dataset, c.key) = NullStatus
        /\ Len(decorations[lastOp.editor].limited) = 1
     \/ /\ IsHtml(lastOp.editor)
        /\ getStatus(dataset, getHtmlBcdKey(<< "a" >>)) = NullStatus
        /\ getStatus(dataset, getHtmlBcdKey(<< "b" >>)) = Status("false")
        /\ Occurrences(text[lastOp.editor], << "a" >>) # {}
        /\ Len(decorations[lastOp.editor].limited) = 1

(***************************************************************************)
(* C4.  A scan of a text with a CSS property or an HTML tag that the       *)
(* dataset does not hold throws nothing, and the absent feature adds no    *)
(* span to any set.                                                        *)
(***************************************************************************)
Absent(key) == key \notin DOMAIN dataset

C4_AbsentFeature ==
  PostScan =>
    LET e == lastOp.editor
        d == decorations[e]
        css == IF IsCss(e) THEN CssAttempts(text[e]) ELSE {}
        html == IF IsHtml(e) THEN TagStarts(text[e]) ELSE {}
    IN  /\ ~uncaught
        /\ \A a \in css :
             CountAll(d, SpanOf(text[e], a.from, a.to))
               <= Cardinality({ c \in css : c.from = a.from /\ ~Absent(c.key) })
        /\ \A i \in html :
             Absent(getHtmlBcdKey(TagNameAt(text[e], i)))
               => CountAll(d, SpanOf(text[e], TagNameFrom(text[e], i), TagNameTo(text[e], i))) = 0

\* An HTML scan of a text with an absent tag and a tag that got a span.
C4_Witness ==
  /\ PostScan
  /\ IsHtml(lastOp.editor)
  /\ ~uncaught
  /\ \E i \in TagStarts(text[lastOp.editor]) :
       Absent(getHtmlBcdKey(TagNameAt(text[lastOp.editor], i)))
  /\ decorations[lastOp.editor].widely # << >>

(***************************************************************************)
(* C5.  Every span of a CSS scan covers exactly a property name: it starts *)
(* at the first character of the name of a declaration and ends at its     *)
(* last, so it holds neither the colon nor the value; and it lies in the   *)
(* set of the tier of the status of one of the declaration's keys.         *)
(***************************************************************************)
\* The characters from from to to are the property name of a declaration:
\* a whole run of [a-zA-Z-], then white space, a colon, a value and a ';'.
IsPropertyName(txt, from, to) ==
  /\ 0 <= from /\ from < to /\ to < Len(txt)
  /\ \A k \in from .. (to - 1) : charAt(txt, k) \in CssNameChars
  /\ from = 0 \/ charAt(txt, from - 1) \notin CssNameChars
  /\ charAt(txt, to) \notin CssNameChars
  /\ \E colon \in to .. (Len(txt) - 1) :
       /\ charAt(txt, colon) = ":"
       /\ \A k \in to .. (colon - 1) : charAt(txt, k) \in Whitespace
       /\ \E semi \in (colon + 2) .. (Len(txt) - 1) : charAt(txt, semi) = ";"

\* The value of the declaration whose property name ends at to, trimmed.
ValueAfter(txt, to) ==
  LET colon == CHOOSE c \in to .. (Len(txt) - 1) :
                 charAt(txt, c) = ":" /\ \A k \in to .. (c - 1) : charAt(txt, k) # ":"
      semi  == CHOOSE x \in (colon + 1) .. (Len(txt) - 1) :
                 charAt(txt, x) = ";" /\ \A k \in (colon + 1) .. (x - 1) : charAt(txt, k) # ";"
  IN  trim(substring(txt, colon + 1, semi))

\* The keys of the declaration whose property name is from .. to.
DeclarationKeys(txt, from, to) ==
  LET property == substring(txt, from, to)
      value == ValueAfter(txt, to)
  IN  { getCssBcdKey(property) }
        \cup (IF value = << >> THEN {} ELSE { CssValueKey(property, value) })

C5_CssSpanIsPropertyName ==
  (PostScan /\ IsCss(lastOp.editor) /\ ~IsHtml(lastOp.editor)) =>
    LET e == lastOp.editor
        txt == text[e]
    IN  \A type \in DecorationTypes : \A n \in DOMAIN decorations[e][type] :
          \E from \in 0 .. Len(txt) : \E to \in from .. Len(txt) :
            /\ decorations[e][type][n] = SpanOf(txt, from, to)
            /\ IsPropertyName(txt, from, to)
            /\ \E key \in DeclarationKeys(txt, from, to) :
                 ExpectedTier(getStatus(dataset, key)) = type

\* A CSS scan that emitted a span for the property B-a of "B-a : a;", which
\* is followed by white space, and not at the start of the text.
C5_Witness ==
  /\ PostScan
  /\ IsCss(lastOp.editor)
  /\ \E from \in 1 .. Len(text[lastOp.editor]) :
       /\ IsPropertyName(text[lastOp.editor], from, from + 3)
       /\ CountAll(decorations[lastOp.editor], SpanOf(text[lastOp.editor], from, from + 3)) = 1

(***************************************************************************)
(* C6.  The scan of "display: grid;" as css, with a dataset that holds     *)
(* only css.properties.display, with baseline "high", yields one span: a   *)
(* widely span at offset 0 of length 7.                                    *)
(***************************************************************************)
C6_DisplayGridExample ==
  ( /\ PostScan
    /\ text[lastOp.editor] = CssExampleText
    /\ languageId[lastOp.editor] = Str_css
    /\ dataset = CssExampleDataset )
  => decorations[lastOp.editor] =
       [ limited |-> << >>,
         newly   |-> << >>,
         widely  |-> << [ start |-> [ line |-> 0, character |-> 0 ],
                          end   |-> [ line |-> 0, character |-> 7 ] ] >> ]

C6_Witness ==
  /\ PostScan
  /\ text[lastOp.editor] = CssExampleText
  /\ languageId[lastOp.editor] = Str_css
  /\ dataset = CssExampleDataset
  /\ Len(decorations[lastOp.editor].widely) = 1

(***************************************************************************)
(* C7.  In an HTML scan a tag whose lookup returns a status with baseline  *)
(* false, "low" or "high" gets exactly one span per occurrence, opening or *)
(* closing, in any letter case, all in the set of the status's tier; and   *)
(* "<dialog></dialog>" with baseline "low" gives two newly spans.          *)
(***************************************************************************)
Recognized(tag) ==
  getStatus(dataset, getHtmlBcdKey(tag)) \in { Status("false"), Status("low"), Status("high") }

C7_OneSpanPerOccurrence ==
  (PostScan /\ IsHtml(lastOp.editor) /\ ~IsCss(lastOp.editor)) =>
    LET e == lastOp.editor
        txt == text[e]
        d == decorations[e]
        recognized == { i \in TagStarts(txt) :
                          /\ Recognized(TagNameAt(txt, i))
                          /\ i \in Occurrences(txt, TagNameAt(txt, i)) }
    IN  /\ \A i \in recognized :
             LET tag == TagNameAt(txt, i)
                 span == SpanOf(txt, TagNameFrom(txt, i), TagNameFrom(txt, i) + Len(tag))
                 tier == ExpectedTier(getStatus(dataset, getHtmlBcdKey(tag)))
             IN  Count(d[tier], span) = 1 /\ CountAll(d, span) = 1
        /\ Len(d.limited) + Len(d.newly) + Len(d.widely) = Cardinality(recognized)
        /\ (txt = HtmlExampleText /\ dataset = HtmlExampleDataset) =>
             d = [ limited |-> << >>,
                   newly   |-> << [ start |-> [ line |-> 0, character |-> 1 ],
                                    end   |-> [ line |-> 0, character |-> 7 ] ],
                                  [ start |-> [ line |-> 0, character |-> 10 ],
                                    end   |-> [ line |-> 0, character |-> 16 ] ] >>,
                   widely  |-> << >> ]

\* An HTML scan of a text with an opening <a> and a closing </A>, both of
\* which got a span.
C7_Witness ==
  /\ PostScan
  /\ IsHtml(lastOp.editor)
  /\ Recognized(<< "a" >>)
  /\ \E i, j \in Occurrences(text[lastOp.editor], << "a" >>) :
       /\ charAt(text[lastOp.editor], i + 1) = "a"
       /\ charAt(text[lastOp.editor], j + 2) = "A"
  /\ \E type \in DecorationTypes : Len(decorations[lastOp.editor][type]) = 2

(***************************************************************************)
(* C8.  An exception of a lookup does not leave the scan, and the sets are *)
(* what the lookups that did not throw yield, in order: the spans of the   *)
(* later matches are emitted as if the key that threw were not there.      *)
(***************************************************************************)
C8_ExceptionSwallowed ==
  PostScan =>
    /\ ~uncaught
    /\ \A type \in DecorationTypes :
         decorations[lastOp.editor][type]
           = SpansOfTier(lastOp.editor, Lookups(lastOp.editor), type)

\* A scan in which a lookup threw and a later lookup gave a span.
C8_Witness ==
  /\ PostScan
  /\ ~uncaught
  /\ LET l == Lookups(lastOp.editor)
     IN  \E n, m \in DOMAIN l :
           /\ n < m
           /\ l[n].from < l[m].from
           /\ getStatus(dataset, l[n].key) = Thrown
           /\ ExpectedTier(getStatus(dataset, l[m].key)) # "none"
           /\ CountAll(decorations[lastOp.editor],
                       SpanOf(text[lastOp.editor], l[m].from, l[m].to)) >= 1

(***************************************************************************)
(* C9.  After highlightFeatures ran on an editor, each of the editor's     *)
(* three sets is the one that scan computed from the document's text: no   *)
(* span of an earlier scan is left, whatever scans, edits and clears came  *)
(* before.                                                                 *)
(***************************************************************************)
C9_ScanReplacesDecorations ==
  PostScan =>
    LET e == lastOp.editor
        b == ScanDocument(dataset, text[e], languageId[e])
    IN  decorations[e] = [ limited |-> b.limited, newly |-> b.newly, widely |-> b.widely ]

\* A scan from a timer, after edits and after deactivate had cleared the
\* editor, that left the editor with the one span of "display: grid;".
C9_Witness ==
  /\ PostScan
  /\ phase = "deactivated"
  /\ dataset = MixedDataset
  /\ text[lastOp.editor] = CssExampleText
  /\ Len(decorations[lastOp.editor].widely) = 1
  /\ decorations[lastOp.editor].newly = << >>
  /\ decorations[lastOp.editor].limited = << >>

(***************************************************************************)
(* C10.  A second scan of the same text, with the same dataset, right      *)
(* after the first leaves the editor's three sets as the first scan set    *)
(* them: the same spans in the same order.                                 *)
(***************************************************************************)
C10_RescanChangesNothing ==
  [][ (PostScan /\ lastOp'.op = "highlightFeatures" /\ lastOp'.editor = lastOp.editor
         /\ text' = text /\ dataset' = dataset)
        => decorations'[lastOp.editor] = decorations[lastOp.editor] ]_vars

\* A second scan in a row of an editor that holds spans.
C10_Witness ==
  /\ PostScan
  /\ lastOp.again
  /\ decorations[lastOp.editor].newly # << >>
  /\ decorations[lastOp.editor].limited # << >>

(***************************************************************************)
(* C11.  A document in css, scss or less gets the spans of its CSS         *)
(* declarations only, a document whose language id contains "html" gets    *)
(* the spans of its HTML tags only, and a document in any other language   *)
(* gets three empty sets.                                                  *)
(***************************************************************************)
C11_LanguageDispatch ==
  PostScan =>
    LET e == lastOp.editor
        lang == languageId[e]
        css == CssLookups(text[e], 0)
        html == HtmlLookups(dataset, text[e], Ascending(TagStarts(text[e])), {})
    IN  \A type \in DecorationTypes :
          decorations[e][type] =
            IF lang \in { Str_css, Str_scss, Str_less }
              THEN SpansOfTier(e, css, type)
            ELSE IF \E i \in 1 .. (Len(lang) - 3) : SubSeq(lang, i, i + 3) = Str_html
              THEN SpansOfTier(e, html, type)
            ELSE << >>

\* A scan of a scss document with a tag the dataset knows, that gave the
\* span of a declaration and none for the tag; and the like for django-html.
C11_Witness ==
  /\ PostScan
  /\ \/ /\ languageId[lastOp.editor] = Str_scss
        /\ text[lastOp.editor] = << "<", "a", ">", "a", ":", "b", ";" >>
        /\ getStatus(dataset, getHtmlBcdKey(<< "a" >>)) = Status("high")
        /\ getStatus(dataset, getCssBcdKey(<< "a" >>)) = Status("low")
        /\ Len(decorations[lastOp.editor].newly) = 1
        /\ decorations[lastOp.editor].widely = << >>
     \/ /\ languageId[lastOp.editor] = Str_django_html
        /\ text[lastOp.editor] = << "a", ":", "b", ";", "<", "a", ">" >>
        /\ getStatus(dataset, getHtmlBcdKey(<< "a" >>)) = Status("high")
        /\ getStatus(dataset, getCssBcdKey(<< "a" >>)) = Status("low")
        /\ Len(decorations[lastOp.editor].widely) = 1
        /\ decorations[lastOp.editor].newly = << >>

(***************************************************************************)
(* C12.  While the setting baselineChecker.highlightEnabled is false, no   *)
(* editor holds a highlight: neither activation, a switch of editor, an    *)
(* edit nor the check command applies one.                                 *)
(***************************************************************************)
C12_DisabledAppliesNoHighlight ==
  ~highlightEnabled => \A e \in Editors : decorations[e] = NoDecorations

(***************************************************************************)
(* C13.  A scan that an edit scheduled runs only when the document has     *)
(* been quiet for the delay: when a callback of setTimeout runs, no later  *)
(* edit of the same editor's document is less than the delay old, that is, *)
(* no callback that a later edit scheduled for that editor is still        *)
(* waiting for its time.                                                   *)
(***************************************************************************)
C13_EditScanAfterQuiet ==
  [][ (timers # << >> /\ timers' = Tail(timers))
        => \A i \in DOMAIN timers' :
             timers'[i].editor = Head(timers).editor => timers'[i].remaining = 0 ]_vars

(***************************************************************************)
(* C14.  Right after clearHighlights ran on an editor, from the clear      *)
(* command or from deactivate, the editor's limited, newly and widely sets *)
(* are all empty, whatever scans came before.                              *)
(***************************************************************************)
C14_ClearRemovesAll ==
  lastOp.op = "clearHighlights" =>
    \A type \in DecorationTypes : decorations[lastOp.editor][type] = << >>

\* The clear command ran on an editor that held the spans of a scan.
C14_Witness ==
  /\ lastOp.op = "clearHighlights"
  /\ lastOp.held
  /\ phase = "active"
  /\ lastOp.editor = activeEditor
  /\ decorations[activeEditor] = NoDecorations

(***************************************************************************)
(* C15.  In an HTML scan no key html.elements.<name> is looked up twice:   *)
(* the tags of the text, in whatever number and letter case, cause one     *)
(* lookup for each distinct lower-cased name.                              *)
(***************************************************************************)
\* The keys the scan of editor e's document calls getStatus with, in order.
KeysLooked(e) == ScanDocument(dataset, text[e], languageId[e]).lookups

IsHtmlKey(key) ==
  /\ Len(key) >= Len(Str_html_elements)
  /\ SubSeq(key, 1, Len(Str_html_elements)) = Str_html_elements

C15_TagLookedUpOnce ==
  (PostScan /\ IsHtml(lastOp.editor)) =>
    LET e == lastOp.editor
        log == KeysLooked(e)
        names == { TagNameAt(text[e], i) : i \in TagStarts(text[e]) }
    IN  /\ \A n, m \in DOMAIN log :
             (IsHtmlKey(log[n]) /\ log[n] = log[m]) => n = m
        /\ \A name \in names : Count(log, getHtmlBcdKey(name)) = 1
        /\ Cardinality({ n \in DOMAIN log : IsHtmlKey(log[n]) }) = Cardinality(names)

\* An HTML scan of a text with <a> and </A>, which looked a up once.
C15_Witness ==
  /\ PostScan
  /\ IsHtml(lastOp.editor)
  /\ \E i, j \in TagStarts(text[lastOp.editor]) :
       /\ i < j
       /\ charAt(text[lastOp.editor], i + 1) = "a"
       /\ j + 2 < Len(text[lastOp.editor])
       /\ charAt(text[lastOp.editor], j + 2) = "A"
  /\ KeysLooked(lastOp.editor) = << getHtmlBcdKey(<< "a" >>) >>

(***************************************************************************)
(* C16.  Every span of an HTML scan is the name of a tag of the text: it   *)
(* starts right after the '<' of an opening tag or the '</' of a closing   *)
(* tag, it is as long as the name, the characters it covers are the whole  *)
(* name and nothing else, and it ends within the text.                     *)
(***************************************************************************)
\* The characters from from to to are the name of the tag that starts at
\* offset i, from its first character to its last.
IsTagName(txt, i, from, to) ==
  /\ charAt(txt, i) = "<"
  /\ \/ from = i + 1
     \/ from = i + 2 /\ charAt(txt, i + 1) = "/"
  /\ from < to /\ to <= Len(txt)
  /\ charAt(txt, from) \in Letters
  /\ \A k \in from .. (to - 1) : charAt(txt, k) \in TagNameChars
  /\ to = Len(txt) \/ charAt(txt, to) \notin TagNameChars

C16_HtmlSpanIsTagName ==
  (PostScan /\ IsHtml(lastOp.editor) /\ ~IsCss(lastOp.editor)) =>
    LET e == lastOp.editor
        txt == text[e]
    IN  \A type \in DecorationTypes : \A n \in DOMAIN decorations[e][type] :
          \E i \in 0 .. (Len(txt) - 1) : \E from \in i .. Len(txt) : \E to \in from .. Len(txt) :
            /\ decorations[e][type][n] = SpanOf(txt, from, to)
            /\ IsTagName(txt, i, from, to)
            /\ to - from = Len(TagNameAt(txt, i))

\* An HTML scan that gave spans to an opening tag and to a closing tag.
C16_Witness ==
  /\ PostScan
  /\ IsHtml(lastOp.editor)
  /\ \E i, j \in TagStarts(text[lastOp.editor]) :
       /\ charAt(text[lastOp.editor], i + 1) # "/"
       /\ charAt(text[lastOp.editor], j + 1) = "/"
       /\ \A k \in { i, j } :
            CountAll(decorations[lastOp.editor],
                     SpanOf(text[lastOp.editor], TagNameFrom(text[lastOp.editor], k),
                            TagNameTo(text[lastOp.editor], k))) = 1

(***************************************************************************)
(* C17.  Within each set the spans are in the order the scan found them:   *)
(* in a CSS scan by the offset of the declaration, in an HTML scan by the  *)
(* first appearance of the tag name and then by offset.  Spans of the same *)
(* range are all kept: a declaration has as many spans in a set as it has  *)
(* keys whose status has that tier.                                        *)
(***************************************************************************)
\* The offsets a span starts and ends at.
StartOffset(txt, span) == CHOOSE o \in 0 .. Len(txt) : positionAt(txt, o) = span.start

EndOffset(txt, span) == CHOOSE o \in 0 .. Len(txt) : positionAt(txt, o) = span.end

\* The lower-cased characters a span covers.
NameUnder(txt, span) ==
  toLowerCase(substring(txt, StartOffset(txt, span), EndOffset(txt, span)))

\* The offset of the first tag with the name.
FirstTagStart(txt, name) ==
  LET starts == { i \in TagStarts(txt) : TagNameAt(txt, i) = name }
  IN  CHOOSE i \in starts : \A j \in starts : i <= j

C17_DiscoveryOrderDuplicatesKept ==
  PostScan =>
    LET e == lastOp.editor
        txt == text[e]
        d == decorations[e]
    IN  /\ \A type \in DecorationTypes : \A n, m \in DOMAIN d[type] :
             n < m =>
               IF IsCss(e)
                 THEN StartOffset(txt, d[type][n]) <= StartOffset(txt, d[type][m])
                 ELSE \/ FirstTagStart(txt, NameUnder(txt, d[type][n]))
                           < FirstTagStart(txt, NameUnder(txt, d[type][m]))
                      \/ /\ NameUnder(txt, d[type][n]) = NameUnder(txt, d[type][m])
                         /\ StartOffset(txt, d[type][n]) < StartOffset(txt, d[type][m])
        /\ IsCss(e) =>
             \A a \in CssAttempts(txt) : \A type \in DecorationTypes :
               Count(d[type], SpanOf(txt, a.from, a.to))
                 = Cardinality({ c \in CssAttempts(txt) :
                                   /\ c.from = a.from
                                   /\ ExpectedTier(getStatus(dataset, c.key)) = type })

\* A CSS scan that put the two spans of one declaration, of the same range,
\* in one set, before the span of a later declaration.
C17_Witness ==
  /\ PostScan
  /\ IsCss(lastOp.editor)
  /\ \E type \in DecorationTypes :
       LET spans == decorations[lastOp.editor][type]
       IN  /\ Len(spans) >= 3
           /\ spans[1] = spans[2]
           /\ spans[3] # spans[2]

(***************************************************************************)
(* C18.  getBcdStatus returns what the dataset holds for a key it holds    *)
(* and null for a key on which getStatus throws, and throws nothing: the   *)
(* status of a hover is that function of the dataset and the key, so two   *)
(* calls with the same key and dataset return the same.                    *)
(***************************************************************************)
C18_LookupWrapper ==
  hover.looked =>
    /\ ~hover.threw
    /\ hover.status = IF hover.key \in DOMAIN dataset THEN dataset[hover.key] ELSE NullStatus
    /\ \A key \in CssKeyPool \cup HtmlKeyPool \cup { hover.key } :
         /\ getBcdStatus(dataset, key) # Thrown
         /\ key \in DOMAIN dataset => getBcdStatus(dataset, key) = dataset[key]
         /\ key \notin DOMAIN dataset => getBcdStatus(dataset, key) = NullStatus

\* A hover whose key the dataset does not hold, while it holds another key.
C18_Witness ==
  /\ hover.looked
  /\ hover.key \notin DOMAIN dataset
  /\ hover.status = NullStatus
  /\ ~hover.threw
  /\ \E key \in DOMAIN dataset : dataset[key] = Status("high")

(***************************************************************************)
(* C19.  Every HTML key that is looked up, by the scan and by the hover,   *)
(* is html.elements. followed by the lower-cased tag name, and every CSS   *)
(* key keeps the letter case of the text: a tag written in upper case is   *)
(* looked up under its lower-cased name wherever it is looked up.          *)
(***************************************************************************)
C19_KeyCaseRules ==
  /\ PostScan =>
       LET e == lastOp.editor
           log == KeysLooked(e)
       IN  /\ IsHtml(e) =>
                \A i \in TagStarts(text[e]) :
                  /\ Count(log, getHtmlBcdKey(TagNameAt(text[e], i))) >= 1
                  /\ \A n \in DOMAIN log : log[n] = toLowerCase(log[n])
           /\ IsCss(e) =>
                \A a \in CssAttempts(text[e]) :
                  /\ Count(log, a.key) >= 1
                  /\ SubSeq(a.key, Len(Str_css_properties) + 1,
                            Len(Str_css_properties) + a.to - a.from)
                       = substring(text[e], a.from, a.to)
  /\ hover.looked =>
       IF IsCss(1)
         THEN hover.key = getCssBcdKey(hover.word)
         ELSE hover.key = getHtmlBcdKey(toLowerCase(hover.word))

(***************************************************************************)
(* C20.  For every status record the support level of the hover tooltip is *)
(* the tier of the set in which the highlighter puts a span with that      *)
(* status, also for a baseline that is neither "high", "low" nor false.    *)
(***************************************************************************)
C20_HoverLevelIsSpanTier ==
  hover.shown =>
    pushByStatus(0, Len(hover.word), hover.status, text[1], EmptyBuckets)[hover.level]
      # << >>

(***************************************************************************)
(* C21.  Without an editor highlightFeatures and clearHighlights change no *)
(* decoration and throw nothing, and the scan of a document whose language *)
(* id is undefined throws nothing and leaves the editor with three empty   *)
(* sets.                                                                   *)
(***************************************************************************)
C21_NoHostIsNoOp ==
  /\ [](~uncaught)
  /\ []((PostScan /\ languageId[lastOp.editor] = Undefined) =>
          decorations[lastOp.editor] = NoDecorations)
  /\ [][ activeEditor' = NoEditor => decorations' = decorations ]_vars

\* The session a follow-up question asked now would be sent to, and the
\* feature its hint would name
FollowUpSession == LastSession(chatHistory)
FollowUpHint == IF Len(chatHistory) = 0 THEN NoFeature ELSE chatHistory[1].feature

\* The feature that call r of getAlternatives created its session for
SessionFeature(r) == IF r = NoSession THEN NoFeature ELSE requests[r].feature

(***************************************************************************)
(* C22: whenever the chat panel is open, the feature of the follow-up      *)
(* hint and the session that answers follow-ups are those of the feature   *)
(* shown in the panel, also when requests overlap or the panel was closed  *)
(* and reopened.                                                           *)
(***************************************************************************)
C22_FollowUpMatchesPanel ==
  chatPanel # NoPanel =>
    /\ FollowUpHint = panels.shown[chatPanel]
    /\ SessionFeature(FollowUpSession) = panels.shown[chatPanel]

(***************************************************************************)
(* C23.  A CSS scan looks up, for each matched declaration in turn, the    *)
(* property key and, only when the trimmed value is not empty, the key     *)
(* property.value; every lookup that returns without throwing gives one    *)
(* span, so that a declaration has at most two spans, both at the offset   *)
(* and with the length of its property name.                               *)
(***************************************************************************)
C23_SpanPerLookup ==
  (PostScan /\ IsCss(lastOp.editor) /\ ~IsHtml(lastOp.editor)) =>
    LET e == lastOp.editor
        d == decorations[e]
        lookups == CssLookups(text[e], 0)
        Returning(a) == { n \in DOMAIN lookups :
                            /\ lookups[n].from = a.from
                            /\ getStatus(dataset, lookups[n].key) # Thrown }
    IN  /\ KeysLooked(e) = [ n \in DOMAIN lookups |-> lookups[n].key ]
        /\ \A n \in DOMAIN lookups :
             /\ CountAll(d, SpanOf(text[e], lookups[n].from, lookups[n].to))
                  = Cardinality(Returning(lookups[n]))
             /\ Cardinality(Returning(lookups[n])) <= 2
        /\ Len(d.limited) + Len(d.newly) + Len(d.widely)
             = Cardinality({ n \in DOMAIN lookups :
                               getStatus(dataset, lookups[n].key) # Thrown })

\* The step changes the text of document e.
Edits(e) == text'[e] # text[e]

(***************************************************************************)
(* C24.  While the extension is active, each edit of the active editor's   *)
(* document adds one callback for that editor, with the full delay, to     *)
(* those that wait, and an edit of any other document adds none and        *)
(* changes no decoration.  A callback that waits leaves only by running,   *)
(* when its delay is over, as a scan of its editor; nothing else removes,  *)
(* merges or reorders the callbacks.                                       *)
(***************************************************************************)
C24_OneScanPerEdit ==
  [][ /\ \A e \in Editors :
           Edits(e) =>
             IF phase = "active" /\ e = activeEditor
               THEN timers' = Append(timers, [ editor |-> e, remaining |-> Delay ])
               ELSE timers' = timers /\ decorations' = decorations
      /\ (\A e \in Editors : ~Edits(e)) =>
           \/ /\ Len(timers') = Len(timers)
              /\ \A i \in DOMAIN timers :
                   /\ timers'[i].editor = timers[i].editor
                   /\ timers'[i].remaining <= timers[i].remaining
           \/ /\ timers # << >>
              /\ timers' = Tail(timers)
              /\ Head(timers).remaining = 0
              /\ lastOp'.op = "highlightFeatures"
              /\ lastOp'.editor = Head(timers).editor ]_vars

\* Two edits of the active editor's document: two callbacks wait, the first
\* with its delay over, the second with its own delay still to run.
C24_Witness ==
  /\ Len(timers) = 2
  /\ activeEditor # NoEditor
  /\ timers[1].editor = activeEditor
  /\ timers[2].editor = activeEditor
  /\ timers[1].remaining = 0
  /\ timers[2].remaining > 0

\* No callback of setTimeout waits for editor e.
NoScanScheduled(e) == \A i \in DOMAIN timers : timers[i].editor # e

\* The last call into highlight.js was a scan that an edit had scheduled:
\* a scan of another editor than the active one, or after deactivate, comes
\* from a callback of setTimeout only.
PostScheduledScan ==
  /\ PostScan
  /\ lastOp.editor # activeEditor \/ phase = "deactivated"

(***************************************************************************)
(* C25.  Once the last scheduled scan of an editor has run and no clear    *)
(* follows, the editor's three sets are those of a scan of the document's  *)
(* final text: when the document changes after that scan and the change    *)
(* leaves no scan scheduled for the editor, the sets are already those of  *)
(* the new text.                                                           *)
(***************************************************************************)
C25_HighlightsOfFinalText ==
  [][ ( /\ PostScheduledScan
        /\ NoScanScheduled(lastOp.editor)
        /\ Edits(lastOp.editor)
        /\ \A i \in DOMAIN timers' : timers'[i].editor # lastOp.editor )
      => decorations'[lastOp.editor]
           = LET b == ScanDocument(dataset', text'[lastOp.editor], languageId'[lastOp.editor])
             IN  [ limited |-> b.limited, newly |-> b.newly, widely |-> b.widely ] ]_vars

(***************************************************************************)
(* C26.  Cleared stays cleared: when clearHighlights, from the clear       *)
(* command or from deactivate, was the last call on an editor and no edit, *)
(* switch of editor or check command came after it, a callback of          *)
(* setTimeout that runs next, scheduled by an edit made before the clear,  *)
(* leaves the editor without highlights.                                   *)
(***************************************************************************)
C26_ClearedStaysCleared ==
  [][ ( /\ lastOp.op = "clearHighlights"
        /\ lastOp.editor # NoEditor
        /\ timers # << >>
        /\ timers' = Tail(timers) )
      => decorations'[lastOp.editor] = NoDecorations ]_vars

\* Call r of getAlternatives fails in this step, with no other call waiting.
FailsAlone(r) ==
  /\ requests[r].pc = "sending"
  /\ requests'[r].pc = "failed"
  /\ \A o \in Requests \ { r } : requests[o].pc # "sending"

(***************************************************************************)
(* C27.  A getAlternatives request that fails leaves the chat as it was:   *)
(* when it fails with a panel open, the panel keeps its content, and a     *)
(* follow-up question asked then finds a session, the one of the feature   *)
(* that the panel shows.                                                   *)
(***************************************************************************)
C27_FailedRequestKeepsChat ==
  [][ \A r \in Requests :
        (FailsAlone(r) /\ chatPanel # NoPanel) =>
          /\ chatPanel' = chatPanel
          /\ panels' = panels
          /\ LastSession(chatHistory') # NoSession
          /\ requests[LastSession(chatHistory')].feature = panels.shown[chatPanel] ]_vars

(***************************************************************************)
(* C28.  Handling a follow-up question never ends in an unhandled error:   *)
(* the handler of an askQuestion message never rejects, also when the      *)
(* panel is closed while the question waits for the model, and a handler   *)
(* that ended posted exactly one appendContent or showError.               *)
(***************************************************************************)
C28_QuestionAlwaysHandled ==
  \A q \in Questions :
    /\ questions[q].pc # "unhandled"
    /\ questions[q].pc \in { "answered", "error" } => questions[q].replies = 1
    /\ questions[q].pc \in { "idle", "sending" } => questions[q].replies = 0

(***************************************************************************)
(* C29.  At most one chat panel exists at any time, and chatPanel refers   *)
(* to it: a panel is created only when chatPanel is null, a reply that     *)
(* finds a panel open shows its feature in that panel, and the close of    *)
(* the panel sets chatPanel to null and chatHistory to the empty array.    *)
(***************************************************************************)
C29_AtMostOnePanel ==
  /\ [](/\ Cardinality(panels.open) <= 1
        /\ panels.open = IF chatPanel = NoPanel THEN {} ELSE { chatPanel })
  /\ [][ /\ panels'.created # panels.created =>
              /\ chatPanel = NoPanel
              /\ panels'.created = panels.created + 1
              /\ chatPanel' = panels'.created
         /\ (\E r \in Requests : requests[r].pc = "sending" /\ requests'[r].pc = "done") =>
              /\ chatPanel # NoPanel => chatPanel' = chatPanel /\ panels'.created = panels.created
              /\ \E r \in Requests :
                   /\ requests'[r] # requests[r]
                   /\ panels'.shown[chatPanel'] = requests[r].feature
         /\ panels'.open # panels.open /\ panels'.open \subseteq panels.open =>
              chatPanel' = NoPanel /\ chatHistory' = << >> ]_vars

\* The panel was closed and a later request created the second panel, the
\* only one open; a session was pushed on the history that the close emptied.
C29_Witness ==
  /\ panels.created = 2
  /\ panels.open = { 2 }
  /\ chatPanel = 2
  /\ \A r \in Requests : requests[r].pc = "done"
  /\ Len(chatHistory) = 2
  /\ panels.shown[1] # panels.shown[2]

====
